---- MODULE Spec2Model ----
(***************************************************************************)
(* Field collection for one draft: the chat route's read-modify-write of   *)
(* the draft row (src/src/app/api/chat/route.ts), with the zod shape of    *)
(* the oracle's result (src/unnamed/part_000) and the draft row as the     *)
(* upload route creates it (src/src/app/api/upload/route.ts).              *)
(***************************************************************************)
EXTENDS Integers, Sequences, FiniteSets, TLC

\* ------------------------------------------------------------------ bounds
MaxFields == 3
MaxTurns == 2
MaxExtract == 1
MaxRenderFields == 2
MaxPieces == 2
MaxRenders == 2

\* --------------------------------------------------------------- constants
\* JavaScript values that are not strings or numbers of the model.
Null == "<null>"
\* Math.round(0 / 0 * 100): not a number. Kept apart from every integer 0..100.
NaN == 0 - 1

KeyNames == <<"a", "b", "c", "d", "e">>
LabelNames == <<"A", "B", "C", "D", "E">>
TypeNames == <<"text", "money", "date", "jurisdiction", "text">>
\* A key the oracle may invent that is no field of any schema.
UnknownKey == "zz"
\* Collected values: the empty string is a legal z.string().
Values == {"", "X", "Y"}
MessageTypes == {"document_info", "general_chat", "greeting"}
Requests == 1 .. MaxTurns

\* FieldSchema: the n-th field of a schema; `required` is the schema's choice.
Field(i, req) ==
    [key |-> KeyNames[i], label |-> LabelNames[i], type |-> TypeNames[i], required |-> req]

\* FieldsExtractionSchema.fields: z.array(FieldSchema), here of 0..MaxFields
\* fields with pairwise distinct keys.
SchemasUpTo(max) ==
    UNION { { [i \in 1 .. n |-> Field(i, flags[i])] : flags \in [1 .. n -> BOOLEAN] }
            : n \in 0 .. max }

Schemas == SchemasUpTo(MaxFields)

FieldKeys(fields) == { fields[i].key : i \in 1 .. Len(fields) }

\* z.record(z.string(), z.string()): any string keys, any string values.
Records(keys) ==
    UNION { [ks -> Values] : ks \in { s \in SUBSET keys : Cardinality(s) <= MaxExtract } }

EmptyData == [k \in {} |-> ""]

\* The user message of the k-th request the client sends.
UserMessage(r) == <<"m1", "m2", "m3", "m4">>[r]

InitialMessage == "Great! I've analyzed your SAFE agreement."

\* ConversationResponseSchema: the results that pass validation, for a draft
\* with the given fields.
ClarificationCases ==
    { [needsClarification |-> FALSE, clarificationQuestion |-> Null, nextQuestion |-> "What's next?"],
      [needsClarification |-> TRUE, clarificationQuestion |-> "Which date?", nextQuestion |-> Null],
      [needsClarification |-> FALSE, clarificationQuestion |-> Null, nextQuestion |-> Null] }

ConversationResponses(fields) ==
    { [messageType |-> mt, conversationalResponse |-> "Got it.", extractedData |-> e,
       isComplete |-> ic, needsClarification |-> cc.needsClarification,
       clarificationQuestion |-> cc.clarificationQuestion, nextQuestion |-> cc.nextQuestion,
       missingFields |-> <<>>]
      : mt \in MessageTypes, e \in Records(FieldKeys(fields) \cup {UnknownKey}),
        ic \in BOOLEAN, cc \in ClarificationCases }

\* ---------------------------------------------------- the handler's values
\* JavaScript truthiness of obj[key] for a Record<string, string>.
Truthy(data, k) == k \in DOMAIN data /\ data[k] # ""

\* fields.filter(f => f.required)
requiredFields(fields) == SelectSeq(fields, LAMBDA f : f.required)

\* requiredFields.filter(f => updatedData[f.key])
filledRequired(fields, data) ==
    SelectSeq(requiredFields(fields), LAMBDA f : Truthy(data, f.key))

\* Truncation in place of rounding.
MathRoundPercent_Floor(n, d) == IF d = 0 THEN NaN ELSE (100 * n) \div d

\* Math.round(n / d * 100) for integers n >= 0, d >= 0: the nearest integer,
\* halves up; 0 / 0 is NaN.
MathRoundPercent(n, d) == IF d = 0 THEN NaN ELSE (200 * n + d) \div (2 * d)

completenessOf(fields, data) ==
    MathRoundPercent(Len(filledRequired(fields, data)), Len(requiredFields(fields)))

\* requiredFields.filter(f => !collectedData[f.key])
missingFields(fields, data) ==
    SelectSeq(requiredFields(fields), LAMBDA f : ~Truthy(data, f.key))

\* The progress line of the system instructions sent to the oracle.
buildSystemInstructions(fields, collectedData) ==
    LET required == Len(requiredFields(fields))
        missing == Len(missingFields(fields, collectedData))
    IN [completeness |-> MathRoundPercent(required - missing, required),
        filled |-> required - missing, required |-> required]

\* The variant that merges whatever the message type.
shouldUpdateData_AnyType(validated) == DOMAIN validated.extractedData # {}

shouldUpdateData(validated) ==
    validated.messageType = "document_info" /\ DOMAIN validated.extractedData # {}

\* The spread with its operands swapped: the collected value wins.
SpreadMerge_LeftBiased(collected, extracted) ==
    [k \in DOMAIN collected \cup DOMAIN extracted |->
        IF k \in DOMAIN collected THEN collected[k] ELSE extracted[k]]

\* { ...collectedData, ...validated.extractedData }
SpreadMerge(collected, extracted) ==
    [k \in DOMAIN collected \cup DOMAIN extracted |->
        IF k \in DOMAIN extracted THEN extracted[k] ELSE collected[k]]

updatedData(collectedData, validated) ==
    IF shouldUpdateData(validated)
    THEN SpreadMerge(collectedData, validated.extractedData)
    ELSE collectedData

CompleteSuffix == "\n\nThat's everything! Your document is ready."

\* a string s is truthy iff it is neither null nor empty
TruthyString(s) == s # Null /\ s # ""

Concat(a, b) == <<a, b>>

\* A handler that looks at nextQuestion before the clarification question.
assistantMessageContent_NextFirst(validated) ==
    IF TruthyString(validated.nextQuestion)
    THEN Concat(validated.conversationalResponse, validated.nextQuestion)
    ELSE IF validated.needsClarification /\ TruthyString(validated.clarificationQuestion)
    THEN Concat(validated.conversationalResponse, validated.clarificationQuestion)
    ELSE IF validated.isComplete
    THEN Concat(validated.conversationalResponse, CompleteSuffix)
    ELSE <<validated.conversationalResponse>>

\* let assistantMessageContent = validated.conversationalResponse; then one
\* of the three suffixes, or none
assistantMessageContent(validated) ==
    IF validated.needsClarification /\ TruthyString(validated.clarificationQuestion)
    THEN Concat(validated.conversationalResponse, validated.clarificationQuestion)
    ELSE IF TruthyString(validated.nextQuestion)
    THEN Concat(validated.conversationalResponse, validated.nextQuestion)
    ELSE IF validated.isComplete
    THEN Concat(validated.conversationalResponse, CompleteSuffix)
    ELSE <<validated.conversationalResponse>>

\* The two new entries in the wrong order.
updatedMessages_ReplyFirst(existingMessages, message, content) ==
    existingMessages \o <<[role |-> "assistant", content |-> content],
                          [role |-> "user", content |-> <<message>>]>>

updatedMessages(existingMessages, message, content) ==
    existingMessages \o <<[role |-> "user", content |-> <<message>>],
                          [role |-> "assistant", content |-> content]>>

statusOf(validated) == IF validated.isComplete THEN "complete" ELSE "collecting"

\* ------------------------------------------------------- the render's text
\* A text is a sequence of atoms: one of the characters [ ] $ _ and the space,
\* or a run of other characters.  Chars gives the atoms of a string.
Chars(s) ==
    CASE s = "" -> <<>>
      [] s = "[A]" -> <<"[", "A", "]">>
      [] s = "[B]" -> <<"[", "B", "]">>
      [] s = "$[_]" -> <<"$", "[", "_", "]">>
      [] OTHER -> <<s>>

\* The case folding of the 'i' flag, atom by atom.
Lower(c) ==
    CASE c = "A" -> "a" [] c = "B" -> "b" [] c = "C" -> "c" [] c = "D" -> "d" [] c = "E" -> "e"
      [] c = "X" -> "x" [] c = "Y" -> "y" [] c = "MISSING" -> "missing"
      [] c = "Company Name" -> "company name" [] c = "Investor Name" -> "investor name"
      [] c = "Acme Corp" -> "acme corp" [] c = "Between " -> "between "
      [] OTHER -> c

\* The characters [_\s] of the money blank.
BlankAtoms == {"_", " "}

\* new RegExp(`\\[${escapeRegExp(s)}\\]`, flags): the escaped string matches
\* itself, between literal brackets; flags 'g' or 'gi'.
BracketPattern(s, ignoreCase) ==
    [kind |-> "literal", atoms |-> <<"[">> \o Chars(s) \o <<"]">>, ignoreCase |-> ignoreCase]

\* /\$\[\s*[_\s]+\s*\]/g
MoneyBlankPattern == [kind |-> "blank"]

\* The length of the run of blank atoms of text that starts at position i.
RECURSIVE BlankRun(_, _)
BlankRun(text, i) ==
    IF i <= Len(text) /\ text[i] \in BlankAtoms THEN 1 + BlankRun(text, i + 1) ELSE 0

\* The length of the match of pattern at position i of text, 0 if there is none.
MatchLen(text, i, pattern) ==
    IF pattern.kind = "literal"
    THEN LET n == Len(pattern.atoms)
         IN IF /\ i + n - 1 <= Len(text)
               /\ \A j \in 1 .. n :
                     IF pattern.ignoreCase
                     THEN Lower(text[i + j - 1]) = Lower(pattern.atoms[j])
                     ELSE text[i + j - 1] = pattern.atoms[j]
            THEN n ELSE 0
    ELSE LET k == BlankRun(text, i + 2)
         IN IF /\ i + 1 <= Len(text) /\ text[i] = "$" /\ text[i + 1] = "["
               /\ k >= 1
               /\ i + 2 + k <= Len(text) /\ text[i + 2 + k] = "]"
            THEN k + 3 ELSE 0

\* text.replace(pattern, value) from position i on, pattern being global: the
\* matches are taken left to right and what is inserted is not scanned again.
\* (No value of the model holds a "$", so no replacement pattern is expanded.)
RECURSIVE ReplaceFrom(_, _, _, _)
ReplaceFrom(text, i, pattern, value) ==
    IF i > Len(text) THEN <<>>
    ELSE LET n == MatchLen(text, i, pattern)
         IN IF n > 0
            THEN value \o ReplaceFrom(text, i + n, pattern, value)
            ELSE <<text[i]>> \o ReplaceFrom(text, i + 1, pattern, value)

Replace(text, pattern, value) == ReplaceFrom(text, 1, pattern, value)

MissingMarker == <<"[", "MISSING", "]">>

\* A route that inserts nothing for a field without a value.
valueOf_Blank(field, collectedData) ==
    IF Truthy(collectedData, field.key) THEN Chars(collectedData[field.key]) ELSE <<>>

\* collectedData[field.key] || '[MISSING]'
valueOf(field, collectedData) ==
    IF Truthy(collectedData, field.key) THEN Chars(collectedData[field.key]) ELSE MissingMarker

\* The patterns tried for one field, in order.
patterns(field) ==
    <<BracketPattern(field.label, FALSE), BracketPattern(field.key, TRUE)>>
        \o (IF field.type = "money" THEN <<MoneyBlankPattern>> ELSE <<>>)

\* for (const pattern of patterns) filledHtml = filledHtml.replace(pattern, value)
RECURSIVE applyPatterns(_, _, _)
applyPatterns(text, pats, value) ==
    IF pats = <<>> THEN text
    ELSE applyPatterns(Replace(text, Head(pats), value), Tail(pats), value)

\* for (const field of fields) { ... }: the fields in schema order, each on the
\* text the fields before it have left.
RECURSIVE fillHtml(_, _, _)
fillHtml(fields, collectedData, html) ==
    IF fields = <<>> THEN html
    ELSE fillHtml(Tail(fields), collectedData,
                  applyPatterns(html, patterns(Head(fields)), valueOf(Head(fields), collectedData)))

\* A check that takes a key that is present for a field that is filled.
missingRequired_KeyPresent(fields, collectedData) ==
    SelectSeq(requiredFields(fields), LAMBDA f : f.key \notin DOMAIN collectedData)

\* requiredFields.filter(f => !collectedData[f.key]) of the render route
missingRequired(fields, collectedData) ==
    SelectSeq(requiredFields(fields), LAMBDA f : ~Truthy(collectedData, f.key))

\* missingRequired.map(f => f.label)
missingLabels(fields, collectedData) ==
    LET missing == missingRequired(fields, collectedData)
    IN [i \in 1 .. Len(missing) |-> missing[i].label]

\* The document the upload stores: a placeholder for each field it extracted.
RECURSIVE DocumentOf(_)
DocumentOf(fields) ==
    IF fields = <<>> THEN <<>>
    ELSE <<"[">> \o Chars(Head(fields).label) \o <<"]">> \o DocumentOf(Tail(fields))


\* ------------------------------------------------------------------- state
VARIABLES
    draft,      \* the draft row of the database
    pc,         \* per request: "new", "awaiting" (the oracle call), "done"
    loaded,     \* per request: the row its findUnique returned
    instructions, \* per request: the progress it reported to the oracle
    oracleResult, \* per request: the oracle's result, once it has passed validation
    response,   \* per request: the HTTP response it returned
    lastUpdate, \* the request whose prisma.draft.update ran last, 0 if none
    render,     \* the render route: its position, what it loaded and answered
    conversation, \* the user inputs the oracle's conversation has received
    page,       \* the draft page: what it shows and whether it is sending
    upload      \* the upload route: its response and the fields it extracted

vars ==
    <<draft, pc, loaded, instructions, oracleResult, response, lastUpdate, render,
      conversation, page, upload>>

NoRow == [none |-> TRUE]
NoResponse == [status |-> 0]

\* An upload route that creates the row without the initial message and only
\* returns that message to the caller.
NewDraft_WithoutMessage(fields) ==
    [fields |-> fields, collectedData |-> EmptyData, completeness |-> 0,
     status |-> "collecting",
     messages |-> <<>>,
     documentHtml |-> DocumentOf(fields), filledHtml |-> Null, filledDocUrl |-> Null]

\* prisma.draft.create of the upload route.
NewDraft(fields) ==
    [fields |-> fields, collectedData |-> EmptyData, completeness |-> 0,
     status |-> "collecting",
     messages |-> <<[role |-> "assistant", content |-> <<InitialMessage>>]>>,
     documentHtml |-> DocumentOf(fields), filledHtml |-> Null, filledDocUrl |-> Null]

\* The render route before its first call.
NoRender ==
    [pc |-> "idle", calls |-> 0, loaded |-> NoRow, filledHtml |-> Null,
     response |-> NoResponse, history |-> <<>>]

\* The draft page once loadDraft has fetched the row: setDraft(data) and
\* setMessages(data.messages).
PageOf(row) ==
    [messages |-> row.messages, completeness |-> row.completeness,
     sending |-> FALSE, inflight |-> 0, outcome |-> "none"]

\* The state once the upload has stored one of the given draft rows and the
\* page has loaded it.
InitWith(drafts) ==
    /\ draft \in drafts
    /\ pc = [r \in Requests |-> "new"]
    /\ loaded = [r \in Requests |-> NoRow]
    /\ instructions = [r \in Requests |-> NoRow]
    /\ oracleResult = [r \in Requests |-> NoRow]
    /\ response = [r \in Requests |-> NoResponse]
    /\ lastUpdate = 0
    /\ render = NoRender
    /\ conversation = <<>>
    /\ page = PageOf(draft)
    /\ upload = [status |-> 200, fields |-> draft.fields]

Init == InitWith({ NewDraft(fields) : fields \in Schemas })

\* POST up to the await of openai.responses.create: the draft is loaded.
\* Requests are numbered in the order the route accepts them.
Load(r) ==
    /\ pc[r] = "new"
    /\ \A q \in Requests : q < r => pc[q] # "new"
    /\ pc' = [pc EXCEPT ![r] = "awaiting"]
    /\ loaded' = [loaded EXCEPT ![r] = draft]
    /\ instructions' = [instructions EXCEPT ![r] =
                          buildSystemInstructions(draft.fields, draft.collectedData)]
    /\ UNCHANGED <<draft, oracleResult, response, lastUpdate, render, conversation, page, upload>>

\* The same, for a caller that keeps at most one turn per draft in flight.
LoadSerial(r) ==
    /\ \A q \in Requests : pc[q] # "awaiting"
    /\ Load(r)

\* POST from the oracle's answer to the response, the answer being valid.
\* A NaN completeness is written as it is; where the column rejects it the
\* update throws, which is Fail.
\* The oracle's answer is drawn from `results`.
RespondWith(r, results) ==
    /\ pc[r] = "awaiting"
    /\ \E v \in results :
         LET data == updatedData(loaded[r].collectedData, v)
             completeness == completenessOf(loaded[r].fields, data)
             content == assistantMessageContent(v)
         IN /\ draft' = [draft EXCEPT
                           !.collectedData = data,
                           !.completeness = completeness,
                           !.status = statusOf(v),
                           !.messages = updatedMessages(loaded[r].messages, UserMessage(r), content)]
            /\ oracleResult' = [oracleResult EXCEPT ![r] = v]
            /\ response' = [response EXCEPT ![r] =
                              [status |-> 200, message |-> content,
                               messageType |-> v.messageType,
                               extractedData |-> v.extractedData,
                               completeness |-> completeness,
                               isComplete |-> v.isComplete,
                               missingFields |-> v.missingFields]]
    /\ pc' = [pc EXCEPT ![r] = "done"]
    /\ lastUpdate' = r
    /\ conversation' = Append(conversation, UserMessage(r))
    /\ UNCHANGED <<loaded, instructions, render, page, upload>>

Respond(r) == RespondWith(r, ConversationResponses(loaded[r].fields))

FailureCauses == {"oracle_error", "bad_json", "validation_error", "update_error"}

\* The failures that come after openai.responses.create has returned: the
\* oracle's conversation then holds the input of the turn. A call that the
\* oracle rejects adds nothing to it.
OracleAnswered(cause) == cause # "oracle_error"

\* A handler that stores the user message before it calls the oracle.
Fail_KeepsUserMessage(r) ==
    /\ pc[r] = "awaiting"
    /\ \E cause \in FailureCauses :
         /\ response' = [response EXCEPT ![r] = [status |-> 500, cause |-> cause]]
         /\ conversation' = IF OracleAnswered(cause)
                             THEN Append(conversation, UserMessage(r))
                             ELSE conversation
    /\ pc' = [pc EXCEPT ![r] = "done"]
    /\ draft' = [draft EXCEPT !.messages =
                    Append(loaded[r].messages, [role |-> "user", content |-> <<UserMessage(r)>>])]
    /\ UNCHANGED <<loaded, instructions, oracleResult, lastUpdate, render, page, upload>>

\* POST when anything after the load throws: the catch block answers 500.
Fail(r) ==
    /\ pc[r] = "awaiting"
    /\ \E cause \in FailureCauses :
         /\ response' = [response EXCEPT ![r] = [status |-> 500, cause |-> cause]]
         /\ conversation' = IF OracleAnswered(cause)
                             THEN Append(conversation, UserMessage(r))
                             ELSE conversation
    /\ pc' = [pc EXCEPT ![r] = "done"]
    /\ UNCHANGED <<draft, loaded, instructions, oracleResult, lastUpdate, render, page, upload>>

Next == \E r \in Requests : Load(r) \/ Respond(r) \/ Fail(r)

Spec == Init /\ [][Next]_vars

NextSerial == \E r \in Requests : LoadSerial(r) \/ Respond(r) \/ Fail(r)

SpecSerial == Init /\ [][NextSerial]_vars

\* ---------------------------------------------------------- the render route
BlobUrl == "https://blob/filled.docx"

\* POST /api/render when a required field is missing: the draft is loaded, the
\* check fails and the route answers without writing anything.
RenderIncomplete ==
    /\ render.pc = "idle"
    /\ render.calls < MaxRenders
    /\ missingRequired(draft.fields, draft.collectedData) # <<>>
    /\ render' = [render EXCEPT
                    !.calls = @ + 1,
                    !.loaded = draft,
                    !.response = [status |-> 200, result |-> "incomplete",
                                  missingFields |-> missingLabels(draft.fields, draft.collectedData)]]
    /\ UNCHANGED <<draft, pc, loaded, instructions, oracleResult, response, lastUpdate,
                   conversation, page, upload>>

\* A route that substitutes into the stored filled text once there is one.
RenderStart_FromFilled ==
    /\ render.pc = "idle"
    /\ render.calls < MaxRenders
    /\ missingRequired(draft.fields, draft.collectedData) = <<>>
    /\ LET source == IF draft.filledHtml # Null THEN draft.filledHtml ELSE draft.documentHtml
           filledHtml == fillHtml(draft.fields, draft.collectedData, source)
       IN render' = [render EXCEPT
                       !.pc = "uploading",
                       !.calls = @ + 1,
                       !.loaded = draft,
                       !.filledHtml = filledHtml,
                       !.history = Append(@, [fields |-> draft.fields,
                                              collectedData |-> draft.collectedData,
                                              documentHtml |-> draft.documentHtml,
                                              filledHtml |-> filledHtml])]
    /\ UNCHANGED <<draft, pc, loaded, instructions, oracleResult, response, lastUpdate,
                   conversation, page, upload>>

\* POST /api/render up to the awaits of the DOCX conversion and the blob
\* upload: the draft is loaded, the check passes, the text is substituted.
RenderStart ==
    /\ render.pc = "idle"
    /\ render.calls < MaxRenders
    /\ missingRequired(draft.fields, draft.collectedData) = <<>>
    /\ LET filledHtml == fillHtml(draft.fields, draft.collectedData, draft.documentHtml)
       IN render' = [render EXCEPT
                       !.pc = "uploading",
                       !.calls = @ + 1,
                       !.loaded = draft,
                       !.filledHtml = filledHtml,
                       !.history = Append(@, [fields |-> draft.fields,
                                              collectedData |-> draft.collectedData,
                                              documentHtml |-> draft.documentHtml,
                                              filledHtml |-> filledHtml])]
    /\ UNCHANGED <<draft, pc, loaded, instructions, oracleResult, response, lastUpdate,
                   conversation, page, upload>>

\* A route that stores the filled text over the original document.
RenderFinish_OverwritesDocument ==
    /\ render.pc = "uploading"
    /\ draft' = [draft EXCEPT !.documentHtml = render.filledHtml,
                              !.filledHtml = render.filledHtml,
                              !.filledDocUrl = BlobUrl,
                              !.status = "complete"]
    /\ render' = [render EXCEPT
                    !.pc = "idle",
                    !.response = [status |-> 200, result |-> "success",
                                  htmlPreview |-> render.filledHtml, docxUrl |-> BlobUrl]]
    /\ UNCHANGED <<pc, loaded, instructions, oracleResult, response, lastUpdate,
                   conversation, page, upload>>

\* POST /api/render from the stored blob to the response.
RenderFinish ==
    /\ render.pc = "uploading"
    /\ draft' = [draft EXCEPT !.filledHtml = render.filledHtml,
                              !.filledDocUrl = BlobUrl,
                              !.status = "complete"]
    /\ render' = [render EXCEPT
                    !.pc = "idle",
                    !.response = [status |-> 200, result |-> "success",
                                  htmlPreview |-> render.filledHtml, docxUrl |-> BlobUrl]]
    /\ UNCHANGED <<pc, loaded, instructions, oracleResult, response, lastUpdate,
                   conversation, page, upload>>

RenderFailureCauses == {"docx_error", "blob_error", "update_error"}

\* POST /api/render when the conversion, the upload or the update throws.
RenderFail ==
    /\ render.pc = "uploading"
    /\ \E cause \in RenderFailureCauses :
         render' = [render EXCEPT !.pc = "idle",
                                  !.response = [status |-> 500, cause |-> cause]]
    /\ UNCHANGED <<draft, pc, loaded, instructions, oracleResult, response, lastUpdate,
                   conversation, page, upload>>

\* Document texts: up to MaxPieces pieces, each a placeholder by label, a
\* placeholder by key, a money blank or plain text.
Pieces ==
    { <<"[", "A", "]">>, <<"[", "B", "]">>, <<"[", "a", "]">>,
      <<"$", "[", "_", "]">>, <<"t">> }

RECURSIVE Texts(_)
Texts(n) ==
    IF n = 0 THEN { <<>> }
    ELSE Texts(n - 1) \cup { t \o p : t \in Texts(n - 1), p \in Pieces }

\* Values the oracle may extract: z.record(z.string(), z.string()) admits any
\* string, bracketed text included.
RenderValues == {"", "X", "[A]", "[B]"}

RenderResponses(fields) ==
    { [messageType |-> "document_info",
       conversationalResponse |-> "Got it.",
       extractedData |-> e,
       nextQuestion |-> Null,
       isComplete |-> c,
       needsClarification |-> FALSE,
       clarificationQuestion |-> Null,
       missingFields |-> <<>>]
      : e \in UNION { [keys -> RenderValues] : keys \in SUBSET FieldKeys(fields) },
        c \in BOOLEAN }

RespondRender(r) == RespondWith(r, RenderResponses(loaded[r].fields))

InitRender ==
    InitWith({ [NewDraft(fields) EXCEPT !.documentHtml = html]
               : fields \in SchemasUpTo(MaxRenderFields), html \in Texts(MaxPieces) })

NextRender ==
    \/ \E r \in {1} : LoadSerial(r) \/ RespondRender(r) \/ Fail(r)
    \/ RenderIncomplete
    \/ RenderStart
    \/ RenderFinish
    \/ RenderFail

SpecRender == InitRender /\ [][NextRender]_vars

\* ------------------------------------------------- money fields and blanks
\* Schemas whose fields are each of type text or money.
MoneySchemas ==
    UNION { { [i \in 1 .. n |-> [Field(i, flags[i]) EXCEPT !.type = types[i]]]
              : flags \in [1 .. n -> BOOLEAN], types \in [1 .. n -> {"text", "money"}] }
            : n \in 0 .. MaxRenderFields }

\* Document texts of money blanks and plain text.
MoneyPieces ==
    { <<"$", "[", "_", "]">>, <<"$", "[", "_", " ", "]">>, <<"t">> }

RECURSIVE MoneyTexts(_)
MoneyTexts(n) ==
    IF n = 0 THEN { <<>> }
    ELSE MoneyTexts(n - 1) \cup { t \o p : t \in MoneyTexts(n - 1), p \in MoneyPieces }

\* Values the oracle may extract, one of them written like a money blank.
MoneyValues == {"", "X", "Y", "$[_]"}

MoneyResponses(fields) ==
    { [messageType |-> "document_info",
       conversationalResponse |-> "Got it.",
       extractedData |-> e,
       nextQuestion |-> Null,
       isComplete |-> TRUE,
       needsClarification |-> FALSE,
       clarificationQuestion |-> Null,
       missingFields |-> <<>>]
      : e \in UNION { [keys -> MoneyValues] : keys \in SUBSET FieldKeys(fields) } }

RespondMoney(r) == RespondWith(r, MoneyResponses(loaded[r].fields))

InitMoney ==
    InitWith({ [NewDraft(fields) EXCEPT !.documentHtml = html]
               : fields \in MoneySchemas, html \in MoneyTexts(MaxPieces) })

NextMoney ==
    \/ \E r \in {1} : LoadSerial(r) \/ RespondMoney(r) \/ Fail(r)
    \/ RenderIncomplete
    \/ RenderStart
    \/ RenderFinish
    \/ RenderFail

SpecMoney == InitMoney /\ [][NextMoney]_vars

\* ---------------------------------------------------------- the upload route
\* What generateObject may return for FieldsExtractionSchema: z.array(FieldSchema)
\* puts no condition on the keys, so two fields may carry the same one.
Extractions ==
    UNION { { [i \in 1 .. n |-> [Field(i, flags[i]) EXCEPT !.key = keys[i]]]
              : flags \in [1 .. n -> BOOLEAN],
                keys \in [1 .. n -> { KeyNames[j] : j \in 1 .. MaxRenderFields }] }
            : n \in 0 .. MaxRenderFields }

\* The page before loadDraft has answered.
NoPage ==
    [messages |-> <<>>, completeness |-> 0, sending |-> FALSE, inflight |-> 0,
     outcome |-> "none"]

InitUpload ==
    /\ draft = NoRow
    /\ pc = [r \in Requests |-> "new"]
    /\ loaded = [r \in Requests |-> NoRow]
    /\ instructions = [r \in Requests |-> NoRow]
    /\ oracleResult = [r \in Requests |-> NoRow]
    /\ response = [r \in Requests |-> NoResponse]
    /\ lastUpdate = 0
    /\ render = NoRender
    /\ conversation = <<>>
    /\ page = NoPage
    /\ upload = NoResponse

\* POST /api/upload, everything succeeding: the fields are extracted, the
\* oracle's conversation is created and the draft row is stored.
Upload ==
    /\ upload = NoResponse
    /\ \E fields \in Extractions :
         /\ draft' = NewDraft(fields)
         /\ upload' = [status |-> 200, fields |-> fields]
    /\ conversation' = <<>>
    /\ UNCHANGED <<pc, loaded, instructions, oracleResult, response, lastUpdate, render, page>>

\* POST /api/upload answering 400: no file, not a .docx, or too large.
UploadReject ==
    /\ upload = NoResponse
    /\ \E cause \in {"no_file", "not_docx", "too_large"} :
         upload' = [status |-> 400, cause |-> cause]
    /\ UNCHANGED <<draft, pc, loaded, instructions, oracleResult, response, lastUpdate,
                   render, conversation, page>>

UploadFailureCauses ==
    {"blob_error", "parse_error", "extraction_error", "conversation_error", "create_error"}

\* POST /api/upload when a step throws: the catch block answers 500.
UploadFail ==
    /\ upload = NoResponse
    /\ \E cause \in UploadFailureCauses :
         upload' = [status |-> 500, cause |-> cause]
    /\ UNCHANGED <<draft, pc, loaded, instructions, oracleResult, response, lastUpdate,
                   render, conversation, page>>

\* A chat turn for the draft the upload returned: findUnique finds the row.
LoadUploaded(r) ==
    /\ draft # NoRow
    /\ LoadSerial(r)

NextUpload ==
    \/ Upload
    \/ UploadReject
    \/ UploadFail
    \/ \E r \in Requests : LoadUploaded(r) \/ Respond(r) \/ Fail(r)

SpecUpload == InitUpload /\ [][NextUpload]_vars

\* ------------------------------------------------------------ the draft page
ErrorMessage == "Sorry, something went wrong. Please try again."

\* sendMessage up to the fetch: the user message is shown at once and the
\* input is locked.
sendMessage(r) ==
    /\ ~page.sending
    /\ pc[r] = "new"
    /\ \A q \in Requests : q < r => pc[q] # "new"
    /\ page' = [page EXCEPT
                  !.messages = Append(@, [role |-> "user", content |-> <<UserMessage(r)>>]),
                  !.sending = TRUE,
                  !.inflight = r]
    /\ UNCHANGED <<draft, pc, loaded, instructions, oracleResult, response, lastUpdate,
                   render, conversation, upload>>

\* The chat route takes the request the page has sent.
LoadSent(r) ==
    /\ page.inflight = r
    /\ Load(r)

\* sendMessage after a response that is ok: loadDraft replaces what is shown
\* by the stored row, or fails and leaves it as it is.
PageReload(r) ==
    /\ page.inflight = r
    /\ pc[r] = "done"
    /\ response[r].status = 200
    /\ \/ page' = [PageOf(draft) EXCEPT !.outcome = "reloaded"]
       \/ page' = [page EXCEPT !.sending = FALSE, !.inflight = 0,
                               !.outcome = "reload_failed"]
    /\ UNCHANGED <<draft, pc, loaded, instructions, oracleResult, response, lastUpdate,
                   render, conversation, upload>>

\* sendMessage after a response that is not ok: the catch block appends the
\* error message to what is shown.
PageError(r) ==
    /\ page.inflight = r
    /\ pc[r] = "done"
    /\ response[r].status # 200
    /\ page' = [page EXCEPT
                  !.messages = Append(@, [role |-> "assistant", content |-> <<ErrorMessage>>]),
                  !.sending = FALSE,
                  !.inflight = 0,
                  !.outcome = "failed"]
    /\ UNCHANGED <<draft, pc, loaded, instructions, oracleResult, response, lastUpdate,
                   render, conversation, upload>>

InitPage == InitWith({ NewDraft(fields) : fields \in SchemasUpTo(MaxRenderFields) })

NextPage ==
    \E r \in Requests :
        sendMessage(r) \/ LoadSent(r) \/ Respond(r) \/ Fail(r) \/ PageReload(r) \/ PageError(r)

SpecPage == InitPage /\ [][NextPage]_vars

\* ------------------------------------------- one turn, every message shape
\* nextQuestion and clarificationQuestion are z.string().nullable(): null, the
\* empty string and a question all pass validation, in every combination with
\* the two flags.
Questions(q) == {Null, "", q}

\* missingFields is z.array(z.string()): the oracle's own list, here empty or
\* one key of the schema.
MissingFieldsLists(fields) == { <<>> } \cup { <<k>> : k \in FieldKeys(fields) }

MessageResponses(fields) ==
    { [messageType |-> mt, conversationalResponse |-> cr, extractedData |-> e,
       isComplete |-> ic, needsClarification |-> nc,
       clarificationQuestion |-> cq, nextQuestion |-> nq, missingFields |-> mf]
      : mt \in MessageTypes, cr \in {"Got it.", ""}, e \in Records(FieldKeys(fields)),
        ic \in BOOLEAN, nc \in BOOLEAN,
        cq \in Questions("Which date?"), nq \in Questions("What's next?"),
        mf \in MissingFieldsLists(fields) }

RespondMessage(r) == RespondWith(r, MessageResponses(loaded[r].fields))

NextMessage == \E r \in {1} : Load(r) \/ RespondMessage(r) \/ Fail(r)

SpecMessage == Init /\ [][NextMessage]_vars

\* ------------------------------------- the company and investor agreement
ScenarioFields ==
    << [key |-> "company_name", label |-> "Company Name", type |-> "text", required |-> TRUE],
       [key |-> "investor_name", label |-> "Investor Name", type |-> "text", required |-> FALSE] >>

ScenarioText ==
    <<"Between ", "[", "Company Name", "]", " and ", "[", "Investor Name", "]", ".">>

ScenarioDraft == [NewDraft(ScenarioFields) EXCEPT !.documentHtml = ScenarioText]

ScenarioValues == {"", "Acme Corp"}

ScenarioResponses ==
    { [messageType |-> mt,
       conversationalResponse |-> "Got it.",
       extractedData |-> e,
       nextQuestion |-> Null,
       isComplete |-> c,
       needsClarification |-> FALSE,
       clarificationQuestion |-> Null,
       missingFields |-> <<>>]
      : mt \in MessageTypes,
        e \in UNION { [keys -> ScenarioValues] : keys \in SUBSET FieldKeys(ScenarioFields) },
        c \in BOOLEAN }

RespondScenario(r) == RespondWith(r, ScenarioResponses)

InitScenario == InitWith({ ScenarioDraft })

NextScenario ==
    \/ \E r \in Requests : LoadSerial(r) \/ RespondScenario(r) \/ Fail(r)
    \/ RenderIncomplete
    \/ RenderStart
    \/ RenderFinish
    \/ RenderFail

SpecScenario == InitScenario /\ [][NextScenario]_vars

\* ================================================================== claims
\* The request whose update wrote the row last, its validated result as the
\* response echoes it, and the row it had loaded.
Turned == lastUpdate # 0
LastResponse == response[lastUpdate]
LastLoaded == loaded[lastUpdate]
LastResult == oracleResult[lastUpdate]

\* Counts taken from the schema and the data directly.
RequiredIdx(fields) == { i \in 1 .. Len(fields) : fields[i].required }
FilledIdx(fields, data) ==
    { i \in RequiredIdx(fields) :
        \E v \in Values \ {""} : fields[i].key \in DOMAIN data /\ data[fields[i].key] = v }
\* c is n / d * 100 rounded to the nearest integer (halves up).
IsRoundedPercent(c, n, d) ==
    /\ c \in 0 .. 100
    /\ 2 * (100 * n - c * d) <= d
    /\ 2 * (100 * n - c * d) > 0 - d

\* C1: after a turn whose result is a greeting or general chat, the persisted
\* CollectedData is the CollectedData the turn loaded, whatever extractedData
\* the oracle returned.
C1_OffTopicKeepsData ==
    (Turned /\ LastResponse.messageType # "document_info")
        => draft.collectedData = LastLoaded.collectedData

C1_Witness ==
    /\ Turned
    /\ LastResponse.messageType = "greeting"
    /\ DOMAIN LastResponse.extractedData = {"a"}
    /\ LastLoaded.collectedData # EmptyData
    /\ draft.collectedData = LastLoaded.collectedData

\* C2: after every turn the status is complete iff the oracle's isComplete is
\* true and the turn's completeness is 100; so status = complete implies that
\* every required field has a non-empty collected value.
\* (Stated for schemas with a required field; without one, see C5.)
C2_StatusCorroborated ==
    (Turned /\ RequiredIdx(draft.fields) # {}) =>
        /\ (draft.status = "complete") <=> (LastResponse.isComplete /\ draft.completeness = 100)
        /\ (draft.status = "complete")
              => FilledIdx(draft.fields, draft.collectedData) = RequiredIdx(draft.fields)

\* C3: every key of CollectedData is the key of a field of the schema.
C3_KeysWithinSchema == DOMAIN draft.collectedData \subseteq FieldKeys(draft.fields)

C5_NoRequiredIsComplete ==
    (Turned /\ RequiredIdx(draft.fields) = {})
        => (draft.completeness = 100 /\ LastResponse.completeness = 100)

\* One step of the draft row, as C6 constrains it.
C6_Step ==
    RequiredIdx(draft.fields) # {} =>
        /\ draft'.completeness >= draft.completeness
        /\ FilledIdx(draft.fields, draft.collectedData)
              \subseteq FilledIdx(draft'.fields, draft'.collectedData)

\* C6: the persisted completeness never decreases from one accepted turn to
\* the next: no turn turns a required field that counted as filled back into
\* an unfilled one.  (Stated for schemas with a required field and for turns
\* accepted one after the other; see C5 and C10 for the rest.)
C6_CompletenessMonotone == [][C6_Step]_vars

\* C7: after a document_info turn, CollectedData maps every key of
\* extractedData to its extracted value and every other key to the value the
\* turn loaded; no key is removed.
C7_RightBiasedMerge ==
    (Turned /\ LastResponse.messageType = "document_info") =>
        LET e == LastResponse.extractedData
            old == LastLoaded.collectedData
        IN /\ \A k \in DOMAIN e : k \in DOMAIN draft.collectedData /\ draft.collectedData[k] = e[k]
           /\ \A k \in DOMAIN old \ DOMAIN e :
                 k \in DOMAIN draft.collectedData /\ draft.collectedData[k] = old[k]
           /\ DOMAIN old \subseteq DOMAIN draft.collectedData

\* A correction: the turn loaded a = "X" and the oracle extracted a = "Y".
C7_Witness ==
    /\ Turned
    /\ LastResponse.messageType = "document_info"
    /\ "a" \in DOMAIN LastLoaded.collectedData
    /\ LastLoaded.collectedData["a"] = "X"
    /\ "a" \in DOMAIN LastResponse.extractedData
    /\ LastResponse.extractedData["a"] = "Y"
    /\ draft.collectedData["a"] = "Y"

\* The log is the initial assistant message followed by user/assistant pairs.
PairedLog(messages) ==
    /\ Len(messages) % 2 = 1
    /\ \A i \in 1 .. Len(messages) :
          messages[i].role = (IF i % 2 = 1 THEN "assistant" ELSE "user")

\* One step of a request and the draft row, as C8 constrains it.
C8_Step ==
    /\ \A r \in Requests :
          (pc[r] = "awaiting" /\ pc'[r] = "done") =>
              IF response'[r].status = 500
              THEN draft' = draft
              ELSE /\ response'[r].status = 200
                   /\ lastUpdate' = r
                   /\ draft'.completeness = response'[r].completeness
                   /\ (draft'.status = "complete") <=> response'[r].isComplete
                   /\ (response'[r].messageType = "document_info") =>
                         \A k \in DOMAIN response'[r].extractedData :
                             draft'.collectedData[k] = response'[r].extractedData[k]
                   /\ Len(draft'.messages) = Len(loaded[r].messages) + 2
                   /\ draft'.messages[Len(draft'.messages) - 1]
                         = [role |-> "user", content |-> <<UserMessage(r)>>]
                   /\ draft'.messages[Len(draft'.messages)]
                         = [role |-> "assistant", content |-> response'[r].message]
    /\ (\A r \in Requests : pc'[r] = pc[r]) => draft' = draft
    /\ PairedLog(draft'.messages)

\* C8: a turn that fails (oracle error, unparsable output, validation failure,
\* failed update) leaves the draft row exactly as it was; a turn that succeeds
\* writes CollectedData, completeness, status and both log entries in one
\* update; the log never ends with a user message.
C8_TurnAtomic == [][C8_Step]_vars

\* A turn that failed validation after an earlier turn had collected data.
C8_Witness ==
    \E r \in Requests :
        /\ response[r].status = 500
        /\ response[r].cause = "validation_error"
        /\ Turned
        /\ loaded[r].collectedData # EmptyData
        /\ draft = loaded[r]

\* The contents of the user entries of a log, in log order.
UserEntries(messages) ==
    LET users == SelectSeq(messages, LAMBDA m : m.role = "user")
    IN [i \in 1 .. Len(users) |-> users[i].content[1]]

\* The user messages of the requests answered 200, in the order of acceptance.
RECURSIVE AcceptedFrom(_)
AcceptedFrom(r) ==
    IF r > MaxTurns THEN <<>>
    ELSE (IF response[r].status = 200 THEN <<UserMessage(r)>> ELSE <<>>) \o AcceptedFrom(r + 1)

\* One step of the log, as C9 constrains it.
C9_Step ==
    /\ (lastUpdate' # lastUpdate) =>
          LET n == Len(draft.messages) IN
          /\ Len(draft'.messages) = n + 2
          /\ SubSeq(draft'.messages, 1, n) = draft.messages
          /\ draft'.messages[n + 1] = [role |-> "user", content |-> <<UserMessage(lastUpdate')>>]
          /\ draft'.messages[n + 2]
                = [role |-> "assistant", content |-> response'[lastUpdate'].message]
    /\ (lastUpdate' = lastUpdate) => draft'.messages = draft.messages
    /\ UserEntries(draft'.messages) = AcceptedFrom(1)'

\* C9: with turns accepted one after the other, every accepted turn extends
\* the persisted log by exactly two entries, the user message and then the
\* assistant message, the old log staying a prefix; the user messages are in
\* the log in the order of acceptance.
C9_LogAppendOnly == [][C9_Step]_vars

C9_Witness ==
    /\ \A r \in Requests : response[r].status = 200
    /\ Len(draft.messages) = 1 + 2 * MaxTurns

\* C10: when two turns overlap, no update is lost: after both have finished,
\* the log holds both user/assistant pairs in the order of acceptance and
\* CollectedData holds the keys both turns merged.
C10_NoLostUpdate ==
    \A r1, r2 \in Requests :
        (r1 < r2 /\ response[r1].status = 200 /\ response[r2].status = 200) =>
            /\ \E i, j \in 1 .. Len(UserEntries(draft.messages)) :
                  /\ i < j
                  /\ UserEntries(draft.messages)[i] = UserMessage(r1)
                  /\ UserEntries(draft.messages)[j] = UserMessage(r2)
            /\ \A r \in {r1, r2} :
                  response[r].messageType = "document_info"
                      => DOMAIN response[r].extractedData \subseteq DOMAIN draft.collectedData

\* Required fields with no non-empty collected value, taken from the schema
\* and the data directly.
UnfilledIdx(fields, data) ==
    { i \in RequiredIdx(fields) :
        fields[i].key \notin DOMAIN data \/ data[fields[i].key] = "" }

\* One call of the render route on a draft with an unfilled required field.
C11_Step ==
    (render'.calls = render.calls + 1
       /\ UnfilledIdx(draft.fields, draft.collectedData) # {})
    => /\ render'.response.status = 200
       /\ render'.response.result = "incomplete"
       /\ LET labels == render'.response.missingFields
          IN /\ { labels[i] : i \in DOMAIN labels }
                  = { draft.fields[i].label : i \in UnfilledIdx(draft.fields, draft.collectedData) }
             /\ Len(labels) = Cardinality(UnfilledIdx(draft.fields, draft.collectedData))
       /\ render'.pc = "idle"
       /\ render'.history = render.history
       /\ render'.filledHtml = render.filledHtml
       /\ draft' = draft

\* C11: a render call on a draft with a required field that has no non-empty
\* collected value answers 'incomplete' with exactly the labels of the unfilled
\* required fields, substitutes nothing, and leaves the draft (filled text,
\* document URL and status included) as it was.
C11_AllOrNothing == [][C11_Step]_vars

C11_Witness ==
    /\ render.response.status = 200
    /\ render.response.result = "incomplete"
    /\ render.response.missingFields = <<"B">>
    /\ Truthy(draft.collectedData, "a")
    /\ "b" \in DOMAIN draft.collectedData
    /\ draft.filledHtml = Null
    /\ draft.filledDocUrl = Null

\* One call of the render route: it goes on to substitute exactly when the
\* chat route's completeness for the same schema and data is 100.
C12_Step ==
    render'.calls = render.calls + 1
    => (render'.pc = "uploading"
          <=> completenessOf(draft.fields, draft.collectedData) = 100)

\* C12: for every schema and CollectedData, render proceeds to substitution if
\* and only if the completeness a chat turn computes for them is 100.
C12_RenderAgreesWithCompleteness == [][C12_Step]_vars

\* With a required field in the schema the two checks agree.
C12_AgreeWithRequired ==
    [][RequiredIdx(draft.fields) # {} => C12_Step]_vars

\* C13: once the draft's status is complete, no chat turn and no render call
\* sets it back to collecting.
C13_CompleteIsTerminal ==
    [][draft.status = "complete" => draft'.status = "complete"]_vars

\* The parts of a message: the conversational response and what was appended.
Parts(message) == { message[i] : i \in DOMAIN message }

\* C14: after a turn whose oracle result has needsClarification = true and a
\* nextQuestion, the assistant message does not contain that nextQuestion,
\* whatever the clarificationQuestion is (null and empty included).
C14_ClarificationHidesNextQuestion ==
    (Turned /\ LastResult.needsClarification /\ TruthyString(LastResult.nextQuestion))
        => LastResult.nextQuestion \notin Parts(LastResponse.message)

\* The turn of the clarification scenario.
ClarificationScenario ==
    /\ Turned
    /\ LastResult.needsClarification
    /\ LastResult.clarificationQuestion = "Which date?"
    /\ LastResult.nextQuestion = "What's next?"

\* The last entry of the stored log.
LastLogged == draft.messages[Len(draft.messages)]

FallbackMessage == "I didn't catch that."

\* C16: after a turn whose result has needsClarification = false, the
\* assistant message carries the nextQuestion if there is one; otherwise the
\* completion message if isComplete; otherwise the fallback message.
C16_ThreeWayRule ==
    (Turned /\ ~LastResult.needsClarification)
        => IF TruthyString(LastResult.nextQuestion)
           THEN LastResult.nextQuestion \in Parts(LastResponse.message)
           ELSE IF LastResult.isComplete
           THEN CompleteSuffix \in Parts(LastResponse.message)
           ELSE FallbackMessage \in Parts(LastResponse.message)

\* The substitutions the render route has computed so far.
Rendered == { render.history[i] : i \in DOMAIN render.history }

\* The fields with a pattern that matches the text at position i.
MatchingFields(fields, text, i) ==
    { k \in DOMAIN fields :
        \E j \in DOMAIN patterns(fields[k]) : MatchLen(text, i, patterns(fields[k])[j]) > 0 }

\* One scan of the original text: every placeholder occurrence is replaced by
\* the value of its field (the first in schema order, should two fields claim
\* it), and what was inserted is not looked at again.
RECURSIVE ScanFrom(_, _, _, _)
ScanFrom(fields, data, text, i) ==
    IF i > Len(text) THEN <<>>
    ELSE IF MatchingFields(fields, text, i) = {}
    THEN <<text[i]>> \o ScanFrom(fields, data, text, i + 1)
    ELSE LET k == CHOOSE m \in MatchingFields(fields, text, i) :
                     \A o \in MatchingFields(fields, text, i) : m <= o
             j == CHOOSE m \in DOMAIN patterns(fields[k]) :
                     MatchLen(text, i, patterns(fields[k])[m]) > 0
         IN valueOf(fields[k], data)
              \o ScanFrom(fields, data, text, i + MatchLen(text, i, patterns(fields[k])[j]))

\* C17: the filled text of a render is the original text with each placeholder
\* occurrence replaced by the value of its own field; a value inserted for one
\* field is not replaced again by the pattern of a later field, even when the
\* value has the form [<label>] or [<key>] of another field.
C17_InsertedValuesStay ==
    \A h \in Rendered :
        h.filledHtml = ScanFrom(h.fields, h.collectedData, h.documentHtml, 1)

\* C18: substituting again into the output of a render, with the same schema
\* and the same complete CollectedData, gives that output back.
C18_SecondPassNoOp ==
    \A h \in Rendered :
        fillHtml(h.fields, h.collectedData, h.filledHtml) = h.filledHtml

\* A step of the render route keeps the schema, the CollectedData and the
\* stored original text, and any two substitutions made so far from the same
\* schema, data and text have produced the same filled text.
C19_Step ==
    render' # render
    => /\ draft'.fields = draft.fields
       /\ draft'.collectedData = draft.collectedData
       /\ draft'.documentHtml = draft.documentHtml
       /\ \A i, j \in DOMAIN render'.history :
            LET g == render'.history[i]
                h == render'.history[j]
            IN (g.fields = h.fields /\ g.collectedData = h.collectedData
                  /\ g.documentHtml = h.documentHtml)
               => g.filledHtml = h.filledHtml

\* C19: rendering is deterministic and pure: two render substitutions with the
\* same schema, CollectedData and document text produce the same filled text,
\* and a render modifies neither the schema, nor the CollectedData, nor the
\* stored original document text.
C19_RenderDeterministic == [][C19_Step]_vars

C19_Witness ==
    /\ Len(render.history) = 2
    /\ Truthy(draft.collectedData, "a")
    /\ render.history[1].fields = render.history[2].fields
    /\ render.history[1].collectedData = render.history[2].collectedData
    /\ render.history[1].documentHtml = render.history[2].documentHtml
    /\ render.history[1].filledHtml = render.history[2].filledHtml
    /\ render.history[1].filledHtml # render.history[1].documentHtml
    /\ draft.filledHtml = render.history[1].filledHtml
    /\ draft.documentHtml = render.history[1].documentHtml

\* Only the company's name has been collected.
ScenarioData == [k \in {"company_name"} |-> "Acme Corp"]

\* What holds of the scenario whatever the rendered text is: the turn that
\* stored the data computed completeness 100, and no render of that data
\* reported missing fields.
ScenarioCompleteness ==
    /\ (Turned /\ draft.collectedData = ScenarioData) => draft.completeness = 100
    /\ (render.pc = "idle" /\ render.response.status = 200
          /\ render.loaded.collectedData = ScenarioData)
          => render.response.result = "success"

\* C20 as stated: the rendered text keeps the optional field's placeholder.
C20_PlaceholderKept ==
    /\ ScenarioCompleteness
    /\ \A h \in Rendered :
          h.collectedData = ScenarioData
          => h.filledHtml
               = <<"Between ", "Acme Corp", " and ", "[", "Investor Name", "]", ".">>

\* C20: for the schema [company_name required, investor_name optional] and the
\* text "Between [Company Name] and [Investor Name].", collecting
\* {company_name: "Acme Corp"} yields completeness 100, render reports no
\* missing field, and the rendered text is "Between Acme Corp and [MISSING].".
C20_MissingMarker ==
    /\ ScenarioCompleteness
    /\ \A h \in Rendered :
          h.collectedData = ScenarioData
          => h.filledHtml = <<"Between ", "Acme Corp", " and ", "[", "MISSING", "]", ".">>

C20_Witness ==
    /\ draft.collectedData = ScenarioData
    /\ draft.completeness = 100
    /\ render.pc = "idle"
    /\ render.response.status = 200
    /\ render.response.result = "success"
    /\ render.loaded.collectedData = ScenarioData
    /\ draft.filledHtml = <<"Between ", "Acme Corp", " and ", "[", "MISSING", "]", ".">>

\* C21: no chat turn and no render call changes the draft's field schema (the
\* fields, their order and their keys) or its original document text: both
\* are in every state what the upload stored.
C21_SchemaAndDocumentFixed ==
    [][draft'.fields = draft.fields /\ draft'.documentHtml = draft.documentHtml]_vars

C21_Witness ==
    /\ Turned
    /\ draft.collectedData # EmptyData
    /\ draft.filledHtml # Null
    /\ draft.filledHtml # draft.documentHtml
    /\ draft.fields = upload.fields
    /\ draft.documentHtml = render.history[1].documentHtml
    /\ Len(draft.fields) = MaxRenderFields

\* C22: every stored draft has pairwise distinct field keys, an extraction with
\* two fields of the same key being refused with a schema error.
C22_DistinctKeys ==
    draft # NoRow
        => \A i, j \in DOMAIN draft.fields :
             i # j => draft.fields[i].key # draft.fields[j].key

\* The step of the upload route that stores the draft.
C23_Step ==
    /\ (draft = NoRow /\ draft' # NoRow)
         => /\ draft'.status = "collecting"
            /\ draft'.completeness = 0
            /\ DOMAIN draft'.collectedData = {}
            /\ Len(draft'.messages) = 1
            /\ draft'.messages[1].role = "assistant"
            /\ draft'.messages[1].content = <<InitialMessage>>
    /\ draft' # NoRow => draft'.status # "parsing"

\* C23: a newly created draft has status collecting, completeness 0, empty
\* CollectedData and a log of exactly one entry, the initial assistant
\* message; no draft is ever in status parsing.
C23_NewDraft == [][C23_Step]_vars

C23_Witness ==
    /\ upload.status = 200
    /\ Len(upload.fields) = MaxRenderFields
    /\ lastUpdate = 0
    /\ draft = NewDraft(upload.fields)
    /\ draft.status = "collecting"
    /\ Len(draft.messages) = 1

\* C24: once the page has handled a failed chat turn, the conversation it
\* shows is the draft's stored log (the failed user message is not among the
\* entries shown) and the completeness it shows is the stored one.
C24_FailedTurnLeavesPage ==
    (page.outcome = "failed" /\ ~page.sending)
        => /\ page.messages = draft.messages
           /\ page.completeness = draft.completeness

\* A step taken once the draft has a stored filled text.
C25_Step ==
    draft.filledHtml # Null
    => /\ draft'.filledHtml = draft.filledHtml
       /\ draft'.filledDocUrl = draft.filledDocUrl
       /\ (render' # render /\ draft.status = "complete") => draft'.status = "complete"

\* C25: after the first successful render the stored filled text and the
\* filled-document URL are not changed by any later render request or chat
\* turn, and a later render leaves the status complete. (That a chat turn can
\* set the status back is C13.)
C25_FilledTextCached == [][C25_Step]_vars

\* C26: whenever no turn is in flight, the user messages the oracle's
\* conversation has received are exactly the user messages of the stored
\* log, in the same order, also after turns that failed between the oracle
\* call and the update.
C26_ConversationMatchesLog ==
    (\A r \in Requests : pc[r] # "awaiting")
        => conversation = UserEntries(draft.messages)

\* The percentage of required fields with a non-empty value, 100 when the
\* schema requires nothing.
MatchesFormula(c, fields, data) ==
    IF RequiredIdx(fields) = {} THEN c = 100
    ELSE IsRoundedPercent(c,
             Cardinality(RequiredIdx(fields) \ UnfilledIdx(fields, data)),
             Cardinality(RequiredIdx(fields)))

\* C27: in every state, after creation and after any chat turns and render
\* calls, the stored completeness is the completeness formula applied to the
\* stored schema and the stored CollectedData.
C27_CompletenessMatchesData ==
    MatchesFormula(draft.completeness, draft.fields, draft.collectedData)

\* With a required field in the schema the stored completeness always matches.
C27_WithRequired ==
    RequiredIdx(draft.fields) # {} => C27_CompletenessMatchesData

\* C28: whenever the draft has a stored filled text, it is the substitution of
\* the draft's current CollectedData into its original document.
C28_FilledTextCurrent ==
    draft.filledHtml # Null
        => draft.filledHtml
             = fillHtml(draft.fields, draft.collectedData, draft.documentHtml)

\* The position of the "]" that closes a money blank starting at i, 0 if no
\* money blank starts there: "$", "[", one or more of "_" and " ", "]".
BlankEnd(text, i) ==
    LET ends == { j \in (i + 3) .. Len(text) :
                    /\ text[i] = "$"
                    /\ text[i + 1] = "["
                    /\ text[j] = "]"
                    /\ \A k \in (i + 2) .. (j - 1) : text[k] \in {"_", " "} }
    IN IF ends = {} THEN 0 ELSE CHOOSE j \in ends : \A o \in ends : j <= o

\* The text with every money blank replaced by the value.
RECURSIVE FillBlanks(_, _, _)
FillBlanks(text, i, value) ==
    IF i > Len(text) THEN <<>>
    ELSE IF BlankEnd(text, i) > 0
    THEN value \o FillBlanks(text, BlankEnd(text, i) + 1, value)
    ELSE <<text[i]>> \o FillBlanks(text, i + 1, value)

MoneyIdx(fields) == { i \in DOMAIN fields : fields[i].type = "money" }

FirstMoney(fields) == CHOOSE i \in MoneyIdx(fields) : \A o \in MoneyIdx(fields) : i <= o

\* What the claim says of one render of a text of money blanks and plain text.
MoneyBlanksFilled(h) ==
    IF MoneyIdx(h.fields) = {}
    THEN h.filledHtml = h.documentHtml
    ELSE LET key == h.fields[FirstMoney(h.fields)].key
             value == IF key \in DOMAIN h.collectedData /\ h.collectedData[key] # ""
                      THEN Chars(h.collectedData[key])
                      ELSE <<"[", "MISSING", "]">>
         IN h.filledHtml = FillBlanks(h.documentHtml, 1, value)

\* C29: money blanks are replaced only while a money field is processed, and
\* all of them: without a money field the blanks stay; with one, every former
\* blank holds the value of the first money field in schema order in the
\* filled text, none is left and none holds the value of a later money field.
C29_MoneyBlanks == \A h \in Rendered : MoneyBlanksFilled(h)

\* The same for CollectedData without a value written like a money blank.
C29_PlainValues ==
    \A h \in Rendered :
        (\A k \in DOMAIN h.collectedData : h.collectedData[k] # "$[_]")
            => MoneyBlanksFilled(h)

\* C30: the missing fields a turn returns are exactly the keys of the required
\* fields without a non-empty value in the CollectedData it stored, and the
\* isComplete it returns is true only if the completeness it returns is 100.
C30_OutcomeConsistent ==
    Turned
        => /\ Parts(LastResponse.missingFields)
                = { draft.fields[i].key : i \in UnfilledIdx(draft.fields, draft.collectedData) }
           /\ LastResponse.isComplete => LastResponse.completeness = 100

\* C30 for schemas with a required field, where the completeness is a number:
\* the returned missing fields alone, and the returned flag alone.
C30_MissingFieldsPart ==
    (Turned /\ RequiredIdx(draft.fields) # {})
        => Parts(LastResponse.missingFields)
             = { draft.fields[i].key : i \in UnfilledIdx(draft.fields, draft.collectedData) }

C30_IsCompletePart ==
    (Turned /\ RequiredIdx(draft.fields) # {})
        => (LastResponse.isComplete => LastResponse.completeness = 100)

====
